---- MODULE Spec2Model ----
(***************************************************************************)
(* Verification model of database.py: the DatabaseManager that provisions  *)
(* the employee / pay_structure schema, validates and imports the rows of  *)
(* two CSV files, and the server-side functions it installs.               *)
(*                                                                         *)
(* Money is held in hundredths (NUMERIC(10,2) values as integers); text    *)
(* cells are tuples of one-character strings; a missing cell (pandas NaN)  *)
(* is the tuple NaN for text and the empty tuple for a number.             *)
(***************************************************************************)
EXTENDS Integers, Sequences, FiniteSets, TLC

VARIABLES
    \* calculate_income_tax, applied to two annual incomes
    income_x, income_y, tax_x, tax_y, tpc,
    \* calculate_total_compensation, applied to one employee id (0: not
    \* called), and the row it returned
    comp_id, comp,
    \* validate_employee_data / validate_pay_data, applied to one raw row
    v_kind, v_row, v_result,
    \* the database server: the rows of the two tables of employeedb
    employees, pay_structure,
    \* every session opened so far, in order of opening
    sessions,
    \* DatabaseManager: self.conn and self.cur (0 is None, else an index of
    \* sessions), self.successful_employee_ids
    conn, cur, successful_employee_ids,
    \* connect_to_psu_db: the loop variable, the connections attempted, the
    \* sleeps taken, and the calls of verify_database_exists
    attempt, attempts, sleeps, verify_calls,
    \* import_data: its four counters and the rows consumed of each file
    successful_inserts, failed_inserts, pay_successful, pay_failed,
    emp_i, pay_i,
    \* control: the statement reached, who called import_data, the
    \* exception that left the last call, the last line logged, and the
    \* number of import_data calls
    pc, caller, raised, log, runs,
    \* history of the current import_data call: the ids of the employee
    \* rows it inserted, and how many rows of each table it inserted
    run_employee_ids, run_inserted_emp, run_inserted_pay,
    \* the ids carried by the employee rows it rejected, and, of its last
    \* pay iteration, whether the row's employee_id was an accepted one and
    \* the statements the iteration reached
    run_rejected_ids, last_pay

taxVars == <<income_x, income_y, tax_x, tax_y, tpc, comp_id, comp>>

valVars == <<v_kind, v_row, v_result>>

dbVars == <<employees, pay_structure>>

connVars == <<sessions, conn, cur, attempt, attempts, sleeps, verify_calls>>

importVars ==
    <<successful_employee_ids, successful_inserts, failed_inserts,
      pay_successful, pay_failed, emp_i, pay_i>>

ctlVars == <<pc, caller, raised, log, runs>>

histVars ==
    <<run_employee_ids, run_inserted_emp, run_inserted_pay,
      run_rejected_ids, last_pay>>

vars ==
    <<taxVars, valVars, dbVars, connVars, importVars, ctlVars, histVars>>

----------------------------------------------------------------------------
(* Cell values as pandas hands them to the code                            *)

\* A missing cell: pandas reads an empty (or NA-like) CSV cell as NaN.
NaN == <<>>

\* The placeholder employees_df.fillna('NA') writes into missing cells.
NA == <<"N", "A">>

Digit == {"0", "1", "2", "3", "4", "5", "6", "7", "8", "9"}

Upper ==
    {"A", "B", "C", "D", "E", "F", "G", "H", "I", "J", "K", "L", "M",
     "N", "O", "P", "Q", "R", "S", "T", "U", "V", "W", "X", "Y", "Z"}

Lower ==
    {"a", "b", "c", "d", "e", "f", "g", "h", "i", "j", "k", "l", "m",
     "n", "o", "p", "q", "r", "s", "t", "u", "v", "w", "x", "y", "z"}

Alpha == Upper \cup Lower

AllIn(s, class) == \A i \in 1..Len(s) : s[i] \in class

DigitValue(c) ==
    CASE c = "0" -> 0 [] c = "1" -> 1 [] c = "2" -> 2 [] c = "3" -> 3
      [] c = "4" -> 4 [] c = "5" -> 5 [] c = "6" -> 6 [] c = "7" -> 7
      [] c = "8" -> 8 [] c = "9" -> 9

\* int(text) raises ValueError unless the text is a decimal numeral.
IntParses(s) == Len(s) >= 1 /\ Len(s) <= 9 /\ AllIn(s, Digit)

RECURSIVE IntValue(_)
IntValue(s) ==
    IF Len(s) = 0 THEN 0
    ELSE 10 * IntValue(SubSeq(s, 1, Len(s) - 1)) + DigitValue(s[Len(s)])

\* str.strip(): leading and trailing blanks removed.
RECURSIVE Strip(_)
Strip(s) ==
    IF Len(s) = 0 THEN s
    ELSE IF s[1] = " " THEN Strip(Tail(s))
    ELSE IF s[Len(s)] = " " THEN Strip(SubSeq(s, 1, Len(s) - 1))
    ELSE s

\* DataFrame.fillna(value) on one cell.
FillNa(cell, value) == IF cell = NaN THEN value ELSE cell

----------------------------------------------------------------------------
(* The patterns of the field rules, as whole-string matches                *)

\* [A-Za-z]+
MatchAlpha(s) == Len(s) >= 1 /\ AllIn(s, Alpha)

\* [0-9]{2}[A-Z]{2}[0-9]{4}
MatchQuarter(s) ==
    /\ Len(s) = 8
    /\ AllIn(SubSeq(s, 1, 2), Digit)
    /\ AllIn(SubSeq(s, 3, 4), Upper)
    /\ AllIn(SubSeq(s, 5, 8), Digit)

MailDomain ==
    <<"@", "s", "a", "i", "l", ".", "b", "o", "k", "a", "r", "o", ".",
      "c", "o", "m">>

\* [a-zA-Z]+[.][a-zA-Z]+@sail[.]bokaro[.]com
MatchEmail(s) ==
    /\ Len(s) > Len(MailDomain)
    /\ SubSeq(s, Len(s) - Len(MailDomain) + 1, Len(s)) = MailDomain
    /\ \E k \in 1..(Len(s) - Len(MailDomain)) :
          /\ s[k] = "."
          /\ MatchAlpha(SubSeq(s, 1, k - 1))
          /\ MatchAlpha(SubSeq(s, k + 1, Len(s) - Len(MailDomain)))

\* [0-9]{10}
MatchPhone(s) == Len(s) = 10 /\ AllIn(s, Digit)

\* [A-Z]{4}[0-9]{5,}
MatchIfsc(s) ==
    /\ Len(s) >= 9
    /\ AllIn(SubSeq(s, 1, 4), Upper)
    /\ AllIn(SubSeq(s, 5, Len(s)), Digit)

\* [0-9]{1,20}
MatchAccount(s) == Len(s) >= 1 /\ Len(s) <= 20 /\ AllIn(s, Digit)

\* Python's re.match(r'^...$', s): $ also matches just before a final
\* newline, so the pattern's body is matched against s or against s less
\* one trailing "\n".
PyMatch(s) ==
    {s} \cup (IF Len(s) >= 1 /\ s[Len(s)] = "\n"
                 THEN {SubSeq(s, 1, Len(s) - 1)} ELSE {})

\* PostgreSQL's  col ~ '^...$' : $ matches at the end of the text only.
PgMatch(s) == {s}

DaysInMonth(y, m) ==
    IF m \in {4, 6, 9, 11} THEN 30
    ELSE IF m # 2 THEN 31
    ELSE IF (y % 4 = 0 /\ y % 100 # 0) \/ y % 400 = 0 THEN 29
    ELSE 28

\* datetime.strptime(text, '%Y-%m-%d') succeeds; texts are taken in the
\* zero-padded form YYYY-MM-DD.
ValidDate(s) ==
    /\ Len(s) = 10
    /\ s[5] = "-" /\ s[8] = "-"
    /\ AllIn(SubSeq(s, 1, 4), Digit)
    /\ AllIn(SubSeq(s, 6, 7), Digit)
    /\ AllIn(SubSeq(s, 9, 10), Digit)
    /\ LET y == IntValue(SubSeq(s, 1, 4))
           m == IntValue(SubSeq(s, 6, 7))
           d == IntValue(SubSeq(s, 9, 10))
       IN  y >= 1 /\ m >= 1 /\ m <= 12 /\ d >= 1 /\ d <= DaysInMonth(y, m)

----------------------------------------------------------------------------
(* validate_ifsc_code, validate_employee_data, validate_pay_data           *)

Verdict(ok, msg) == [is_valid |-> ok, error_msg |-> msg]

validate_ifsc_code(ifsc_code) ==
    IF ifsc_code = NaN THEN FALSE
    ELSE (\E t \in PyMatch(Strip(ifsc_code)) : MatchIfsc(t))

\* The verdict (is_valid, error_msg); error_msg is abbreviated to the field
\* its text names, "Validation error" for the except branch, "None" for
\* None.  row is a row of employees_df after fillna('NA').
validate_employee_data(row) ==
    IF ~IntParses(row.employee_id) THEN Verdict(FALSE, "Validation error")
    ELSE IF ~(1000000 <= IntValue(row.employee_id)
              /\ IntValue(row.employee_id) <= 9999999)
        THEN Verdict(FALSE, "employee_id")
    ELSE IF ~(\E t \in PyMatch(row.first_name) : MatchAlpha(t))
        THEN Verdict(FALSE, "first_name")
    ELSE IF ~(\E t \in PyMatch(row.last_name) : MatchAlpha(t))
        THEN Verdict(FALSE, "last_name")
    ELSE IF ~ValidDate(row.date_of_joining)
        THEN Verdict(FALSE, "date_of_joining")
    ELSE IF row.quarter_no # NA /\ ~(\E t \in PyMatch(row.quarter_no) : MatchQuarter(t))
        THEN Verdict(FALSE, "quarter_no")
    ELSE IF ~(\E t \in PyMatch(row.email_id) : MatchEmail(t))
        THEN Verdict(FALSE, "email_id")
    ELSE IF ~(\E t \in PyMatch(row.phone_number) : MatchPhone(t))
        THEN Verdict(FALSE, "phone_number")
    ELSE IF ~validate_ifsc_code(row.ifsc_code)
        THEN Verdict(FALSE, "ifsc_code")
    ELSE IF ~(\E t \in PyMatch(row.account_number) : MatchAccount(t))
        THEN Verdict(FALSE, "account_number")
    ELSE Verdict(TRUE, "None")

\* A numeric cell is <<n>>, n in hundredths (an identity column holds whole
\* numbers), or NaN.  Comparisons with float('nan') are all false.
Num(cell) == cell[1]

FloatLe(cell, n) == cell # NaN /\ Num(cell) <= n

FloatLt(cell, n) == cell # NaN /\ Num(cell) < n

FloatGt(cell, n) == cell # NaN /\ Num(cell) > n

\* row is a row of pay_df after the nullable columns were filled with 0.
validate_pay_data(row) ==
    IF FloatLe(row.base_salary, 20000 * 100)
        THEN Verdict(FALSE, "base_salary")
    ELSE IF FloatLt(row.da, 0) THEN Verdict(FALSE, "da")
    ELSE IF FloatLt(row.hra, 0) THEN Verdict(FALSE, "hra")
    ELSE IF FloatLt(row.stocks, 0) THEN Verdict(FALSE, "stocks")
    ELSE IF FloatLt(row.vacation_tour, 0)
        THEN Verdict(FALSE, "vacation_tour")
    ELSE IF FloatLt(row.medical_benefits, 0)
        THEN Verdict(FALSE, "medical_benefits")
    ELSE IF FloatGt(row.bonus_amount, 25000 * 100)
        THEN Verdict(FALSE, "bonus_amount")
    ELSE Verdict(TRUE, "None")

----------------------------------------------------------------------------
(* The rows of psu_employees.csv that the model reads                      *)

Id_A == <<"1", "0", "0", "0", "0", "0", "0">>

Id_B == <<"9", "9", "9", "9", "9", "9", "9">>

Email_A == <<"a", ".", "r">> \o MailDomain

Email_B == <<"d", ".", "k">> \o MailDomain

\* A row that satisfies every rule and every constraint of the table.
EmployeeBase(id, email) ==
    [employee_id     |-> id,
     first_name      |-> <<"A", "r", "j", "u", "n">>,
     last_name       |-> <<"R", "a", "o">>,
     designation     |-> <<"G", "M">>,
     department      |-> <<"I", "T">>,
     grade           |-> <<"E", "1">>,
     date_of_joining |-> <<"2", "0", "2", "0", "-", "0", "1", "-", "1", "5">>,
     quarter_no      |-> NaN,
     email_id        |-> email,
     phone_number    |-> <<"9", "8", "7", "6", "5", "4", "3", "2", "1", "0">>,
     account_number  |-> <<"1", "2", "3", "4", "5", "6", "7", "8", "9">>,
     ifsc_code       |-> <<"S", "B", "I", "N", "0", "0", "0", "0", "1">>,
     branch_name     |-> <<"B", "K">>,
     bank_name       |-> <<"S", "B", "I">>,
     shop            |-> <<"S", "M", "S">>]

Digits21 ==
    <<"1", "2", "3", "4", "5", "6", "7", "8", "9", "0", "1", "2", "3", "4",
      "5", "6", "7", "8", "9", "0", "1">>

\* Single cells that differ from the base row: missing, malformed, at the
\* edge of a rule, or accepted by the rule and refused by the table.
EmployeeCells ==
    {<<"employee_id", NaN>>,
     <<"employee_id", <<"9", "9", "9", "9", "9", "9">> >>,
     <<"employee_id", <<"1", "0", "0", "0", "0", "0", "0", "0">> >>,
     <<"employee_id", <<"1", "2", "a">> >>,
     <<"first_name", NaN>>,
     <<"first_name", <<"R", "2">> >>,
     <<"first_name", <<"R", "a", "o", "\n">> >>,
     <<"last_name", NaN>>,
     <<"last_name", <<"O", "'", "N">> >>,
     <<"designation", NaN>>,
     <<"department", NaN>>,
     <<"grade", NaN>>,
     <<"date_of_joining", NaN>>,
     <<"date_of_joining", <<"2", "0", "2", "1", "-", "0", "2", "-", "2", "9">> >>,
     <<"quarter_no", <<"1", "2", "A", "B", "3", "4", "5", "6">> >>,
     <<"quarter_no", <<"1", "2", "a", "b", "3", "4", "5", "6">> >>,
     <<"email_id", NaN>>,
     <<"email_id", <<"a", "r">> \o MailDomain>>,
     <<"phone_number", NaN>>,
     <<"phone_number", <<"9", "8", "7", "6", "5", "4", "3", "2", "1">> >>,
     <<"ifsc_code", NaN>>,
     <<"ifsc_code", <<" ", "S", "B", "I", "N", "0", "0", "0", "0", "1", " ">> >>,
     <<"ifsc_code", <<"s", "b", "i", "n", "0", "0", "0", "0", "1">> >>,
     <<"ifsc_code", <<"S", "B", "I", "N">> \o SubSeq(Digits21, 1, 17)>>,
     <<"account_number", NaN>>,
     <<"account_number", Digits21>>,
     <<"branch_name", NaN>>,
     <<"bank_name", NaN>>,
     <<"shop", NaN>>}

EmployeeRows ==
    {EmployeeBase(id, email) : id \in {Id_A, Id_B}, email \in {Email_A, Email_B}}
    \cup {[EmployeeBase(Id_A, Email_A) EXCEPT ![c[1]] = c[2]] : c \in EmployeeCells}
    \* rows with two or three cells that break a rule
    \cup {[EmployeeBase(Id_A, Email_A) EXCEPT
              !.last_name = <<"R", "2">>, !.phone_number = <<"9", "8">>],
          [EmployeeBase(Id_A, Email_A) EXCEPT
              !.employee_id = <<"9", "9">>, !.first_name = <<"R", "2">>,
              !.account_number = NaN],
          [EmployeeBase(Id_A, Email_A) EXCEPT
              !.date_of_joining = NaN, !.email_id = NaN]}

\* The rows an employee file of the import specifications is made of: the
\* base rows, and rows with one cell missing, malformed, or refused by the
\* table only.
EmployeeFileRows ==
    {EmployeeBase(Id_A, Email_A), EmployeeBase(Id_B, Email_B),
     EmployeeBase(Id_B, Email_A)}
    \cup {[EmployeeBase(Id_A, Email_A) EXCEPT ![c[1]] = c[2]] : c \in
            {<<"first_name", <<"R", "2">> >>,
             <<"first_name", <<"R", "a", "o", "\n">> >>,
             <<"last_name", NaN>>}}

\* employees_df = pd.read_csv(employee_file).fillna('NA'), one row of it
FillEmployeeRow(raw) == [f \in DOMAIN raw |-> FillNa(raw[f], NA)]

\* row['ifsc_code'] = str(row['ifsc_code']).strip()
StripIfsc(row) == [row EXCEPT !.ifsc_code = Strip(row.ifsc_code)]

----------------------------------------------------------------------------
(* The employees table                                                     *)

\* The values list of the INSERT: int(employee_id) and str() of the rest.
EmployeeValues(row) == [row EXCEPT !.employee_id = IntValue(row.employee_id)]

\* The column constraints of CREATE TABLE employees on one tuple.
EmployeeChecks(v) ==
    /\ v.employee_id >= 1000000 /\ v.employee_id <= 9999999
    /\ Len(v.first_name) <= 50 /\ (\E t \in PgMatch(v.first_name) : MatchAlpha(t))
    /\ Len(v.last_name) <= 50 /\ (\E t \in PgMatch(v.last_name) : MatchAlpha(t))
    /\ Len(v.designation) <= 50
    /\ Len(v.department) <= 50
    /\ Len(v.grade) <= 10
    /\ ValidDate(v.date_of_joining)
    /\ Len(v.quarter_no) <= 10
    /\ ((\E t \in PgMatch(v.quarter_no) : MatchQuarter(t)) \/ v.quarter_no = NA)
    /\ Len(v.email_id) <= 100 /\ (\E t \in PgMatch(v.email_id) : MatchEmail(t))
    /\ Len(v.phone_number) <= 10 /\ (\E t \in PgMatch(v.phone_number) : MatchPhone(t))
    /\ Len(v.account_number) <= 20 /\ (\E t \in PgMatch(v.account_number) : MatchAccount(t))
    /\ Len(v.ifsc_code) <= 20 /\ (\E t \in PgMatch(v.ifsc_code) : MatchIfsc(t))
    /\ Len(v.branch_name) <= 50
    /\ Len(v.bank_name) <= 50
    /\ Len(v.shop) <= 50

\* The psycopg2 Error an INSERT INTO employees raises, "" when it succeeds:
\* the column constraints, the primary key, the UNIQUE email_id; fault is a
\* failure of the statement for a reason outside the row (the server or
\* the connection).
EmployeeInsertError(table, v, fault) ==
    IF fault THEN "OperationalError"
    ELSE IF ~EmployeeChecks(v) THEN "check constraint"
    ELSE IF \E e \in table : e.employee_id = v.employee_id
        THEN "duplicate key employees_pkey"
    ELSE IF \E e \in table : e.email_id = v.email_id
        THEN "duplicate key employees_email_id_key"
    ELSE ""

----------------------------------------------------------------------------
(* Arithmetic helpers                                                      *)

\* PostgreSQL ROUND / NUMERIC(p,2) coercion of the exact quotient n / d:
\* to the nearest integer, ties away from zero.
RoundHalfAway(n, d) ==
    IF n >= 0 THEN (2 * n + d) \div (2 * d)
    ELSE -((2 * (-n) + d) \div (2 * d))

Max2(a, b) == IF a >= b THEN a ELSE b

Min2(a, b) == IF a <= b THEN a ELSE b

----------------------------------------------------------------------------
(* calculate_income_tax (PL/pgSQL, created by create_tables)               *)
(* annual_income is in hundredths of a rupee.  The tax before the final    *)
(* division is held in twentieths of a hundredth, the unit in which every  *)
(* rate is a whole number: 0.05 = 1/20, 0.10 = 2/20, 0.15 = 3/20,          *)
(* 0.20 = 4/20, 0.30 = 6/20.                                               *)

\* Band limits of the ELSIF chain, in hundredths (300000, 600000, ...).
Limit1 == 300000 * 100
Limit2 == 600000 * 100
Limit3 == 900000 * 100
Limit4 == 1200000 * 100
Limit5 == 1500000 * 100

\* tax := 0
Band1(annual_income) == 0

\* tax := (annual_income - 300000) * 0.05
Band2(annual_income) == (annual_income - Limit1) * 1

\* tax := 15000 + (annual_income - 600000) * 0.10
Band3(annual_income) == 15000 * 100 * 20 + (annual_income - Limit2) * 2

\* tax := 45000 + (annual_income - 900000) * 0.15
Band4(annual_income) == 45000 * 100 * 20 + (annual_income - Limit3) * 3

\* tax := 90000 + (annual_income - 1200000) * 0.20
Band5(annual_income) == 90000 * 100 * 20 + (annual_income - Limit4) * 4

\* tax := 150000 + (annual_income - 1500000) * 0.30
Band6(annual_income) == 150000 * 100 * 20 + (annual_income - Limit5) * 6

\* RETURN ROUND(tax / 12, 2), tax in twentieths of a hundredth
MonthlyTax(tax) == RoundHalfAway(tax, 12 * 20)

\* Faulty variant: a mistyped band-3 base amount (1500 for 15000).
calculate_income_tax_typo(annual_income) ==
    IF annual_income <= Limit1 THEN MonthlyTax(Band1(annual_income))
    ELSE IF annual_income <= Limit2 THEN MonthlyTax(Band2(annual_income))
    ELSE IF annual_income <= Limit3
        THEN MonthlyTax(1500 * 100 * 20 + (annual_income - Limit2) * 2)
    ELSE IF annual_income <= Limit4 THEN MonthlyTax(Band4(annual_income))
    ELSE IF annual_income <= Limit5 THEN MonthlyTax(Band5(annual_income))
    ELSE MonthlyTax(Band6(annual_income))

\* Faulty variant: the band rate applied to the whole income (flat rate on total).
calculate_income_tax_flat(annual_income) ==
    IF annual_income <= Limit1 THEN MonthlyTax(0)
    ELSE IF annual_income <= Limit2 THEN MonthlyTax(annual_income * 1)
    ELSE IF annual_income <= Limit3 THEN MonthlyTax(annual_income * 2)
    ELSE IF annual_income <= Limit4 THEN MonthlyTax(annual_income * 3)
    ELSE IF annual_income <= Limit5 THEN MonthlyTax(annual_income * 4)
    ELSE MonthlyTax(annual_income * 6)

calculate_income_tax(annual_income) ==
    IF annual_income <= Limit1 THEN MonthlyTax(Band1(annual_income))
    ELSE IF annual_income <= Limit2 THEN MonthlyTax(Band2(annual_income))
    ELSE IF annual_income <= Limit3 THEN MonthlyTax(Band3(annual_income))
    ELSE IF annual_income <= Limit4 THEN MonthlyTax(Band4(annual_income))
    ELSE IF annual_income <= Limit5 THEN MonthlyTax(Band5(annual_income))
    ELSE MonthlyTax(Band6(annual_income))

\* The value of tax before RETURN, in twentieths of a hundredth.
AnnualTax(annual_income) ==
    IF annual_income <= Limit1 THEN Band1(annual_income)
    ELSE IF annual_income <= Limit2 THEN Band2(annual_income)
    ELSE IF annual_income <= Limit3 THEN Band3(annual_income)
    ELSE IF annual_income <= Limit4 THEN Band4(annual_income)
    ELSE IF annual_income <= Limit5 THEN Band5(annual_income)
    ELSE Band6(annual_income)

\* ROUND(tax / 12, 2) is a tie: tax / 12 ends in exactly half a hundredth.
IsRoundingTie(tax) == tax % (12 * 20) = 6 * 20

\* SELECT calculate_income_tax(%s) on float(row['annual_income']).  The
\* float is the 2-decimal amount annual_income plus the rounding error of
\* the float arithmetic, of sign ferr and far below a hundredth; psycopg2
\* sends its repr and PostgreSQL computes on that numeric exactly.  The tax
\* is continuous and non-decreasing in the income, so the error shows in
\* the result only when the exact monthly tax is a tie of ROUND and the
\* float lies below the amount: the tie is then rounded down.
calculate_income_tax_of_float(annual_income, ferr) ==
    IF ferr < 0 /\ IsRoundingTie(AnnualTax(annual_income))
    THEN calculate_income_tax(annual_income) - 1
    ELSE calculate_income_tax(annual_income)

----------------------------------------------------------------------------
(* The rows of pay_structure.csv that the model reads                      *)

\* The employee ids of the pay rows: Id_A, Id_B, and one that no employee
\* row carries.
PayEmp_A == <<1000000>>

PayEmp_B == <<9999999>>

PayEmp_None == <<5555555>>

\* The pay row of the end-to-end scenario: annual income 913000.
PayBase(pay_id, employee_id) ==
    [pay_id            |-> pay_id,
     employee_id       |-> employee_id,
     base_salary       |-> <<50000 * 100>>,
     ta                |-> NaN,
     da                |-> <<10000 * 100>>,
     hra               |-> <<15000 * 100>>,
     stocks            |-> NaN,
     vacation_tour     |-> NaN,
     uniform_allowance |-> NaN,
     medical_benefits  |-> <<5000 * 100>>,
     bonus_amount      |-> <<8000 * 100>>,
     other_allowances  |-> NaN]

\* Single cells that differ from the base row.
PayCells ==
    {<<"pay_id", NaN>>,
     <<"employee_id", NaN>>,
     <<"base_salary", NaN>>,
     <<"base_salary", <<20000 * 100>> >>,
     <<"base_salary", <<20000 * 100 + 1>> >>,
     <<"base_salary", <<20000 * 100 + 4>> >>,
     <<"ta", <<3000 * 100>> >>,
     <<"da", NaN>>,
     <<"da", <<-1>> >>,
     <<"da", <<0>> >>,
     <<"hra", NaN>>,
     <<"hra", <<-1>> >>,
     <<"stocks", <<-1>> >>,
     <<"stocks", <<1000 * 100>> >>,
     <<"vacation_tour", <<-1>> >>,
     <<"uniform_allowance", <<2000 * 100>> >>,
     <<"medical_benefits", NaN>>,
     <<"medical_benefits", <<-1>> >>,
     <<"bonus_amount", NaN>>,
     <<"bonus_amount", <<25000 * 100>> >>,
     <<"bonus_amount", <<25000 * 100 + 1>> >>,
     <<"other_allowances", <<1000 * 100>> >>}

PayRows ==
    {PayBase(<<p>>, e) : p \in {1, 2}, e \in {PayEmp_A, PayEmp_B, PayEmp_None}}
    \cup {[PayBase(<<1>>, PayEmp_A) EXCEPT ![c[1]] = c[2]] : c \in PayCells}
    \* rows with two or three cells that break a rule
    \cup {[PayBase(<<1>>, PayEmp_A) EXCEPT
              !.base_salary = <<20000 * 100>>, !.da = <<-1>>],
          [PayBase(<<1>>, PayEmp_A) EXCEPT
              !.hra = <<-1>>, !.stocks = <<-1>>,
              !.bonus_amount = <<25000 * 100 + 1>>],
          [PayBase(<<1>>, PayEmp_A) EXCEPT
              !.vacation_tour = <<-1>>, !.medical_benefits = <<-1>>]}

\* The rows a pay file of the import specifications is made of.
PayFileRows ==
    {PayBase(<<1>>, PayEmp_A), PayBase(<<2>>, PayEmp_A),
     PayBase(<<2>>, PayEmp_B), PayBase(<<2>>, PayEmp_None)}
    \cup {[PayBase(<<1>>, PayEmp_A) EXCEPT ![c[1]] = c[2]] : c \in
            {<<"pay_id", NaN>>,
             <<"employee_id", NaN>>,
             <<"base_salary", <<20000 * 100 + 4>> >>,
             <<"da", NaN>>,
             <<"hra", <<-1>> >>}}
    \* annual income 300001.20: the monthly tax is exactly half a hundredth
    \cup {[PayBase(<<1>>, PayEmp_A) EXCEPT
              !.base_salary = <<20000 * 100 + 10>>, !.da = <<5000 * 100>>,
              !.hra = <<0>>, !.medical_benefits = <<0>>,
              !.bonus_amount = <<0>>]}

\* float arithmetic of the DataFrame columns: NaN propagates.
FloatAdd(a, b) == IF a = NaN \/ b = NaN THEN NaN ELSE <<Num(a) + Num(b)>>

FloatTimes(a, k) == IF a = NaN THEN NaN ELSE <<Num(a) * k>>

\* One row of pay_df after the nullable columns are filled with 0 and
\* annual_income is added.
PreparePayRow(raw) ==
    LET r == [raw EXCEPT
                 !.ta = FillNa(raw.ta, <<0>>),
                 !.stocks = FillNa(raw.stocks, <<0>>),
                 !.vacation_tour = FillNa(raw.vacation_tour, <<0>>),
                 !.uniform_allowance = FillNa(raw.uniform_allowance, <<0>>),
                 !.other_allowances = FillNa(raw.other_allowances, <<0>>)]
    IN  [f \in DOMAIN r \cup {"annual_income"} |->
            IF f # "annual_income" THEN r[f]
            ELSE FloatAdd(FloatTimes(r.base_salary, 12),
                 FloatAdd(FloatTimes(r.ta, 12),
                 FloatAdd(FloatTimes(r.da, 12),
                 FloatAdd(FloatTimes(r.hra, 12),
                 FloatAdd(FloatTimes(r.uniform_allowance, 12),
                 FloatAdd(r.stocks,
                 FloatAdd(r.vacation_tour,
                 FloatAdd(r.medical_benefits, r.bonus_amount))))))))]

\* The columns that enter annual_income.
IncomeFields == {"base_salary", "ta", "da", "hra", "uniform_allowance",
                 "stocks", "vacation_tour", "medical_benefits",
                 "bonus_amount"}

\* A cell whose amount is a binary float exactly: a whole number of
\* quarters of a rupee.
ExactFloat(cell) == cell = NaN \/ Num(cell) % 25 = 0

\* The signs the error of the float annual_income, as psycopg2 sends it,
\* can have.  The sum of exact cells is exact.  The error of another sum is
\* not computed here: every sign is possible where it can show in the tax,
\* which is where the monthly tax of the exact amount is a tie of ROUND.
FloatErrors(raw) ==
    LET annual_income == PreparePayRow(raw).annual_income
    IN  IF \A f \in IncomeFields : ExactFloat(raw[f]) THEN {0}
        ELSE IF annual_income = NaN THEN {0}
        ELSE IF ~IsRoundingTie(AnnualTax(Num(annual_income))) THEN {0}
        ELSE {-1, 0, 1}

----------------------------------------------------------------------------
(* The pay_structure table                                                 *)

\* The psycopg2 Error of SELECT calculate_income_tax(%s), "" when it
\* succeeds.  A float NaN is sent as 'NaN'::float, and no function
\* calculate_income_tax(double precision) exists.
TaxQueryError(annual_income, fault) ==
    IF fault THEN "OperationalError"
    ELSE IF annual_income = NaN THEN "UndefinedFunction"
    ELSE ""

\* The stored tuple of an INSERT INTO pay_structure: the thirteen values
\* and the GENERATED ALWAYS columns, each coerced to NUMERIC(10,2).
PayTuple(row, monthly_tax) ==
    LET base == Num(row.base_salary)
        gross == base + Num(row.ta) + Num(row.da) + Num(row.hra)
                 + Num(row.uniform_allowance)
    IN  [pay_id            |-> Num(row.pay_id),
         employee_id       |-> Num(row.employee_id),
         base_salary       |-> base,
         ta                |-> Num(row.ta),
         da                |-> Num(row.da),
         hra               |-> Num(row.hra),
         stocks            |-> Num(row.stocks),
         vacation_tour     |-> Num(row.vacation_tour),
         uniform_allowance |-> Num(row.uniform_allowance),
         medical_benefits  |-> Num(row.medical_benefits),
         bonus_amount      |-> Num(row.bonus_amount),
         other_allowances  |-> Num(row.other_allowances),
         \* base_salary * 0.125, exactly base / 8
         employee_pf       |-> RoundHalfAway(base, 8),
         employer_pf       |-> RoundHalfAway(base, 8),
         \* base_salary * 0.25
         total_pf          |-> RoundHalfAway(base, 4),
         income_tax        |-> monthly_tax,
         \* base + ta + da + hra + uniform - (base_salary * 0.125) - tax,
         \* rounded once, after the exact subtraction
         monthly_salary    |-> RoundHalfAway(8 * (gross - monthly_tax) - base, 8)]

\* The column constraints of CREATE TABLE pay_structure on one tuple.
PayChecks(t) ==
    /\ t.base_salary > 20000 * 100
    /\ t.da >= 0
    /\ t.hra >= 0
    /\ t.stocks >= 0
    /\ t.vacation_tour >= 0
    /\ t.medical_benefits >= 0
    /\ t.bonus_amount <= 25000 * 100

\* The psycopg2 Error an INSERT INTO pay_structure raises, "" when it
\* succeeds: the checks, the primary key pay_id, the foreign key.
PayInsertError(table, emps, t, fault) ==
    IF fault THEN "OperationalError"
    ELSE IF ~PayChecks(t) THEN "check constraint"
    ELSE IF \E q \in table : q.pay_id = t.pay_id
        THEN "duplicate key pay_structure_pkey"
    ELSE IF ~\E e \in emps : e.employee_id = t.employee_id
        THEN "foreign key violation"
    ELSE ""

----------------------------------------------------------------------------
(* import_data                                                             *)

\* Rows read from each file in one import_data call.
MaxRows == 2
\* Calls of import_data on one DatabaseManager.
MaxRuns == 2

\* What one loop iteration logged: the message and its detail; NoLog when
\* it logged nothing.
NoLog == <<"", "">>

\* The state one iteration of the employee loop leaves.
EmployeeOutcome(table, ids, ok, bad, line) ==
    [employees |-> table, ids |-> ids, successful |-> ok, failed |-> bad,
     log |-> line]

\* Faulty variant: an invalid employee row skipped without being counted.
EmployeeSkipped_Uncounted(table, ids, ok, bad, msg) ==
    EmployeeOutcome(table, ids, ok, bad,
                    <<"Skipping invalid employee record", msg>>)

\* else: logging.warning("Skipping invalid employee record"); failed += 1
EmployeeSkipped(table, ids, ok, bad, msg) ==
    EmployeeOutcome(table, ids, ok, bad + 1,
                    <<"Skipping invalid employee record", msg>>)

\* Faulty variant: the identity recorded before the INSERT is known to succeed.
EmployeeInsertFailed_IdKept(table, ids, ok, bad, values, err) ==
    EmployeeOutcome(table, ids \cup {values.employee_id}, ok, bad + 1,
                    <<"Error inserting employee record", err>>)

\* except Error: logging.warning("Error inserting employee record");
\* failed_inserts += 1
EmployeeInsertFailed(table, ids, ok, bad, values, err) ==
    EmployeeOutcome(table, ids, ok, bad + 1,
                    <<"Error inserting employee record", err>>)

\* The INSERT succeeded: successful_employee_ids.add(...);
\* successful_inserts += 1
EmployeeInserted(table, ids, ok, bad, values) ==
    EmployeeOutcome(table \cup {values}, ids \cup {values.employee_id},
                    ok + 1, bad, NoLog)

\* One iteration of  for _, row in employees_df.iterrows()  on the raw row.
EmployeeRowResult(raw, fault, table, ids, ok, bad) ==
    LET row == StripIfsc(FillEmployeeRow(raw))
        v == validate_employee_data(row)
        values == EmployeeValues(row)
        err == EmployeeInsertError(table, values, fault)
    IN  IF ~v.is_valid THEN EmployeeSkipped(table, ids, ok, bad, v.error_msg)
        ELSE IF err # ""
            THEN EmployeeInsertFailed(table, ids, ok, bad, values, err)
        ELSE EmployeeInserted(table, ids, ok, bad, values)

\* The state one iteration of the pay loop leaves; exc is the exception
\* that leaves the loop, "" when the loop goes on.
\* steps lists the statements the iteration reached, in order: the
\* membership test, validate_pay_data, the tax query, the INSERT.
PayOutcome(table, ok, bad, line, exc, steps) ==
    [pay_structure |-> table, successful |-> ok, failed |-> bad,
     log |-> line, raised |-> exc, steps |-> steps]

\* Faulty variant: the abort of the run rolls the pay rows back.
PayRaised_Rollback(table, ok, bad, steps) ==
    PayOutcome({}, ok, bad, <<"Error importing data", "ValueError">>,
               "ValueError", steps)

\* int(float('nan')) raises ValueError, which no handler of the loop
\* catches: except Exception logs "Error importing data" and re-raises.
PayRaised(table, ok, bad, steps) ==
    PayOutcome(table, ok, bad, <<"Error importing data", "ValueError">>,
               "ValueError", steps)

\* One of the three else / except branches:  pay_failed += 1
PayRejected(table, ok, bad, line, steps) ==
    PayOutcome(table, ok, bad + 1, line, "", steps)

\* The INSERT succeeded:  pay_successful += 1
PayInserted(table, ok, bad, t) ==
    PayOutcome(table \cup {t}, ok + 1, bad, NoLog, "",
               <<"membership", "validate", "tax", "insert">>)

\* int(row['employee_id']) in self.successful_employee_ids
IsAcceptedEmployee(employee_id, ids) == employee_id \in ids

\* Faulty variant: the fields are validated before the membership test.
PayRowResult_ValidateFirst(raw, fault, ferr, table, emps, ids, ok, bad) ==
    LET row == PreparePayRow(raw)
        v == validate_pay_data(row)
        taxerr == TaxQueryError(row.annual_income, fault = "tax")
        monthly_tax ==
            calculate_income_tax_of_float(Num(row.annual_income), ferr)
        t == PayTuple(row, monthly_tax)
        err == PayInsertError(table, emps, t, fault = "insert")
    IN  IF row.employee_id = NaN THEN PayRaised(table, ok, bad, <<>>)
        ELSE IF ~v.is_valid
            THEN PayRejected(table, ok, bad,
                    <<"Skipping invalid pay record", v.error_msg>>,
                    <<"validate">>)
        ELSE IF ~IsAcceptedEmployee(Num(row.employee_id), ids)
            THEN PayRejected(table, ok, bad,
                    <<"Skipping pay record for non-existent employee_id", "">>,
                    <<"validate", "membership">>)
        ELSE IF taxerr # ""
            THEN PayRejected(table, ok, bad,
                    <<"Error inserting pay record", taxerr>>,
                    <<"validate", "membership", "tax">>)
        ELSE IF row.pay_id = NaN
            THEN PayRaised(table, ok, bad, <<"validate", "membership", "tax">>)
        ELSE IF err # ""
            THEN PayRejected(table, ok, bad,
                    <<"Error inserting pay record", err>>,
                    <<"validate", "membership", "tax", "insert">>)
        ELSE PayInserted(table, ok, bad, t)

\* One iteration of  for _, row in pay_df.iterrows()  on the raw row.
\* fault names the statement that fails for a reason outside the row:
\* "tax", "insert" or "none"; ferr is the sign of the rounding error of the
\* row's float annual_income.
PayRowResult(raw, fault, ferr, table, emps, ids, ok, bad) ==
    LET row == PreparePayRow(raw)
        v == validate_pay_data(row)
        taxerr == TaxQueryError(row.annual_income, fault = "tax")
        monthly_tax ==
            calculate_income_tax_of_float(Num(row.annual_income), ferr)
        t == PayTuple(row, monthly_tax)
        err == PayInsertError(table, emps, t, fault = "insert")
    IN  IF row.employee_id = NaN THEN PayRaised(table, ok, bad, <<>>)
        ELSE IF ~IsAcceptedEmployee(Num(row.employee_id), ids)
            THEN PayRejected(table, ok, bad,
                    <<"Skipping pay record for non-existent employee_id", "">>,
                    <<"membership">>)
        ELSE IF ~v.is_valid
            THEN PayRejected(table, ok, bad,
                    <<"Skipping invalid pay record", v.error_msg>>,
                    <<"membership", "validate">>)
        ELSE IF taxerr # ""
            THEN PayRejected(table, ok, bad,
                    <<"Error inserting pay record", taxerr>>,
                    <<"membership", "validate", "tax">>)
        ELSE IF row.pay_id = NaN
            THEN PayRaised(table, ok, bad, <<"membership", "validate", "tax">>)
        ELSE IF err # ""
            THEN PayRejected(table, ok, bad,
                    <<"Error inserting pay record", err>>,
                    <<"membership", "validate", "tax", "insert">>)
        ELSE PayInserted(table, ok, bad, t)

\* Where control goes when import_data returns, and when it raises.
AfterImportReturn == IF caller = "main" THEN "m_function" ELSE "idle"

AfterImportRaise == IF caller = "main" THEN "m_finally" ELSE "idle"

\* The id an employee row carries, as a set: empty when the cell does not
\* parse as an integer.
CarriedId(raw) ==
    LET cell == FillEmployeeRow(raw).employee_id
    IN  IF IntParses(cell) THEN {IntValue(cell)} ELSE {}

\* The pay row carries an employee_id that is in
\* self.successful_employee_ids when its iteration starts.
HoldsAcceptedId(raw) ==
    raw.employee_id # NaN /\ Num(raw.employee_id) \in successful_employee_ids

\* No pay iteration has run in this call.
NoPay == [accepted |-> FALSE, steps |-> <<>>]

\* The history of the running call follows the tables.
History ==
    /\ run_employee_ids' =
          run_employee_ids \cup {e.employee_id : e \in employees' \ employees}
    /\ run_inserted_emp' =
          run_inserted_emp + Cardinality(employees' \ employees)
    /\ run_inserted_pay' =
          run_inserted_pay + Cardinality(pay_structure' \ pay_structure)

\* import_data is entered: pd.read_csv(employee_file), fillna('NA'), the
\* two employee counters set to 0.  self.successful_employee_ids is the set
\* __init__ created; import_data does not assign it.
ImportBegin(read_ok) ==
    /\ runs' = runs + 1
    /\ successful_inserts' = 0
    /\ failed_inserts' = 0
    /\ pay_successful' = 0
    /\ pay_failed' = 0
    /\ emp_i' = 0
    /\ pay_i' = 0
    /\ run_employee_ids' = {}
    /\ run_inserted_emp' = 0
    /\ run_inserted_pay' = 0
    /\ run_rejected_ids' = {}
    /\ last_pay' = NoPay
    /\ IF read_ok
          THEN pc' = "emp" /\ raised' = "" /\ log' = NoLog
          ELSE /\ pc' = AfterImportRaise
               /\ raised' = "read_csv"
               /\ log' = <<"Error importing data", "read_csv">>
    /\ UNCHANGED <<successful_employee_ids, caller>>
    /\ UNCHANGED <<taxVars, valVars, dbVars, connVars>>

\* import_data called again on a connected DatabaseManager.
CallImport ==
    /\ pc = "idle"
    /\ runs < MaxRuns
    /\ \E read_ok \in BOOLEAN : ImportBegin(read_ok)

\* The failures of a cause outside the row that an employee iteration can
\* meet: the INSERT can fail only when the row reaches it.
EmployeeFaults(raw) ==
    IF validate_employee_data(StripIfsc(FillEmployeeRow(raw))).is_valid
    THEN BOOLEAN
    ELSE {FALSE}

\* The same for a pay iteration: the tax query and the INSERT are reached
\* only by a valid row of an accepted employee.
PayFaults(raw, ids) ==
    LET row == PreparePayRow(raw)
    IN  IF /\ row.employee_id # NaN
           /\ IsAcceptedEmployee(Num(row.employee_id), ids)
           /\ validate_pay_data(row).is_valid
        THEN {"none", "tax", "insert"}
        ELSE {"none"}

ImportEmployeeRow ==
    /\ pc = "emp"
    /\ emp_i < MaxRows
    /\ \E raw \in EmployeeFileRows : \E fault \in EmployeeFaults(raw) :
          LET r == EmployeeRowResult(raw, fault, employees,
                       successful_employee_ids, successful_inserts,
                       failed_inserts)
          IN  /\ employees' = r.employees
              /\ successful_employee_ids' = r.ids
              /\ successful_inserts' = r.successful
              /\ failed_inserts' = r.failed
              /\ log' = r.log
              /\ run_rejected_ids' =
                    IF r.failed > failed_inserts
                    THEN run_rejected_ids \cup CarriedId(raw)
                    ELSE run_rejected_ids
    /\ emp_i' = emp_i + 1
    /\ UNCHANGED last_pay
    /\ UNCHANGED <<pay_structure, pay_successful, pay_failed, pay_i>>
    /\ UNCHANGED <<pc, caller, raised, runs>>
    /\ UNCHANGED <<taxVars, valVars, connVars>>
    /\ History

\* The employee rows are exhausted: the count is logged, pay_file is read,
\* its nullable columns filled and annual_income computed.
ImportEmployeesDone ==
    /\ pc = "emp"
    /\ \E read_ok \in BOOLEAN :
          IF read_ok
          THEN /\ pc' = "pay"
               /\ raised' = ""
               /\ log' = <<"Employees import completed", "">>
          ELSE /\ pc' = AfterImportRaise
               /\ raised' = "read_csv"
               /\ log' = <<"Error importing data", "read_csv">>
    /\ UNCHANGED <<caller, runs>>
    /\ UNCHANGED <<taxVars, valVars, dbVars, connVars, importVars>>
    /\ UNCHANGED <<run_rejected_ids, last_pay>>
    /\ History

ImportPayRow ==
    /\ pc = "pay"
    /\ pay_i < MaxRows
    /\ \E raw \in PayFileRows :
       \E fault \in PayFaults(raw, successful_employee_ids),
          ferr \in FloatErrors(raw) :
          LET r == PayRowResult(raw, fault, ferr, pay_structure, employees,
                       successful_employee_ids, pay_successful, pay_failed)
          IN  /\ pay_structure' = r.pay_structure
              /\ pay_successful' = r.successful
              /\ pay_failed' = r.failed
              /\ log' = r.log
              /\ raised' = r.raised
              /\ pc' = IF r.raised = "" THEN pc ELSE AfterImportRaise
              /\ last_pay' = [accepted |-> HoldsAcceptedId(raw),
                                 steps |-> r.steps]
    /\ pay_i' = pay_i + 1
    /\ UNCHANGED run_rejected_ids
    /\ UNCHANGED <<employees, successful_employee_ids, successful_inserts,
                   failed_inserts, emp_i>>
    /\ UNCHANGED <<caller, runs>>
    /\ UNCHANGED <<taxVars, valVars, connVars>>
    /\ History

\* The pay rows are exhausted: the count is logged and import_data returns.
ImportPayDone ==
    /\ pc = "pay"
    /\ pc' = AfterImportReturn
    /\ log' = <<"Pay structure import completed", "">>
    /\ UNCHANGED <<caller, raised, runs>>
    /\ UNCHANGED <<taxVars, valVars, dbVars, connVars, importVars>>
    /\ UNCHANGED <<run_rejected_ids, last_pay>>
    /\ History

----------------------------------------------------------------------------
(* Specification of the tax function on sampled incomes                    *)

\* Incomes within MaxDelta hundredths of each band limit are sampled.
MaxDelta == 3
\* Incomes Limit1 .. Limit1 + MaxSweep are sampled one hundredth apart, so
\* that the rounding of tax / 12 passes through its ties.
MaxSweep == 130

\* The income of the specification's end-to-end scenario, 913000.00.
ScenarioIncome == 913000 * 100

Incomes ==
    UNION {{l + d : d \in (-MaxDelta)..MaxDelta} :
              l \in {Limit1, Limit2, Limit3, Limit4, Limit5}}
    \cup {Limit1 + d : d \in 0..MaxSweep}
    \cup {Limit5 + 240 * d + 120 : d \in 0..MaxDelta}
    \cup {-100, 0, ScenarioIncome, 2000000 * 100}

\* The variables of a part of the program that a specification does not
\* run are held at these values.
\* The row of calculate_total_compensation, in hundredths.
Compensation(monthly, annual, benefits) ==
    [monthly_compensation |-> monthly, annual_compensation |-> annual,
     total_benefits |-> benefits]

NoCompensation == Compensation(0, 0, 0)

CompensationIdle ==
    /\ comp_id = 0
    /\ comp = NoCompensation

NoTaxCall ==
    /\ income_x = 0
    /\ income_y = 0
    /\ tax_x = 0
    /\ tax_y = 0
    /\ tpc = "unused"

TaxIdle ==
    /\ NoTaxCall
    /\ CompensationIdle

NotValidated == Verdict(FALSE, "not validated")

ValidatorIdle ==
    /\ v_kind = "none"
    /\ v_row = <<>>
    /\ v_result = NotValidated

\* One session, its connection and its cursor.
Session(database, c, k) == [database |-> database, conn |-> c, cur |-> k]

\* A DatabaseManager on which connect_to_psu_db and create_tables have
\* returned: one open session on employeedb, both tables empty,
\* successful_employee_ids as __init__ left it.
ManagerConnected ==
    /\ employees = {}
    /\ pay_structure = {}
    /\ sessions = <<Session("employeedb", "open", "open")>>
    /\ conn = 1
    /\ cur = 1
    /\ attempt = 0
    /\ attempts = 1
    /\ sleeps = <<>>
    /\ verify_calls = 1
    /\ successful_employee_ids = {}

ImportIdle ==
    /\ successful_inserts = 0
    /\ failed_inserts = 0
    /\ pay_successful = 0
    /\ pay_failed = 0
    /\ emp_i = 0
    /\ pay_i = 0
    /\ runs = 0
    /\ raised = ""
    /\ log = NoLog
    /\ run_employee_ids = {}
    /\ run_inserted_emp = 0
    /\ run_inserted_pay = 0
    /\ run_rejected_ids = {}
    /\ last_pay = NoPay

TaxInit ==
    /\ income_x \in Incomes
    /\ income_y \in Incomes
    /\ tax_x = 0
    /\ tax_y = 0
    /\ tpc = "call"
    /\ CompensationIdle
    /\ ValidatorIdle
    /\ ManagerConnected
    /\ ImportIdle
    /\ pc = "idle"
    /\ caller = "none"

\* SELECT calculate_income_tax(%s) for each of the two incomes
TaxCall ==
    /\ tpc = "call"
    /\ tax_x' = calculate_income_tax(income_x)
    /\ tax_y' = calculate_income_tax(income_y)
    /\ tpc' = "returned"
    /\ UNCHANGED <<income_x, income_y, comp_id, comp>>
    /\ UNCHANGED <<valVars, dbVars, connVars, importVars, ctlVars, histVars>>

TaxNext == TaxCall

SpecTax == TaxInit /\ [][TaxNext]_vars

----------------------------------------------------------------------------
(* Specification of the two record validators on single rows               *)

ValidateInit ==
    /\ \/ v_kind = "employee" /\ v_row \in EmployeeRows
       \/ v_kind = "pay" /\ v_row \in PayRows
    /\ v_result = NotValidated
    /\ TaxIdle
    /\ ManagerConnected
    /\ ImportIdle
    /\ pc = "idle"
    /\ caller = "none"

\* is_valid, error_msg = self.validate_employee_data(row), on the row as
\* the employee loop passes it
ValidateEmployee ==
    /\ v_kind = "employee"
    /\ v_result = NotValidated
    /\ v_result' = validate_employee_data(StripIfsc(FillEmployeeRow(v_row)))
    /\ UNCHANGED <<v_kind, v_row>>
    /\ UNCHANGED <<taxVars, dbVars, connVars, importVars, ctlVars, histVars>>

\* is_valid, error_msg = self.validate_pay_data(row), on the row as the pay
\* loop passes it
ValidatePay ==
    /\ v_kind = "pay"
    /\ v_result = NotValidated
    /\ v_result' = validate_pay_data(PreparePayRow(v_row))
    /\ UNCHANGED <<v_kind, v_row>>
    /\ UNCHANGED <<taxVars, dbVars, connVars, importVars, ctlVars, histVars>>

ValidateNext == ValidateEmployee \/ ValidatePay

SpecValidate == ValidateInit /\ [][ValidateNext]_vars

----------------------------------------------------------------------------
(* Specification of import_data called repeatedly on one connected manager *)

Init ==
    /\ TaxIdle
    /\ ValidatorIdle
    /\ ManagerConnected
    /\ ImportIdle
    /\ pc = "idle"
    /\ caller = "harness"

Next ==
    \/ CallImport
    \/ ImportEmployeeRow
    \/ ImportEmployeesDone
    \/ ImportPayRow
    \/ ImportPayDone

Spec == Init /\ [][Next]_vars

----------------------------------------------------------------------------
(* main(): connect, create the database and the tables, import, clean up   *)

\* self.max_retries and self.retry_delay, set by __init__
max_retries == 5

retry_delay == 3

\* Faulty variant: cleanup that closes the cursor and leaves the connection open.
cleanup_CursorOnly(ss, c, k) ==
    IF k # 0 THEN [ss EXCEPT ![k].cur = "closed"] ELSE ss

\* cleanup(): if self.cur: self.cur.close(); if self.conn: self.conn.close().
\* Closing what is closed already changes nothing.
cleanup(ss, c, k) ==
    LET s1 == IF k # 0 THEN [ss EXCEPT ![k].cur = "closed"] ELSE ss
    IN  IF c # 0 THEN [s1 EXCEPT ![c].conn = "closed"] ELSE s1

\* Faulty variant: the wait computed from the 0-based loop variable.
wait_time_ZeroBased(i) == retry_delay * i

\* wait_time = self.retry_delay * (attempt + 1)
wait_time(i) == retry_delay * (i + 1)

\* not (attempt < self.max_retries - 1): the except branch re-raises
IsLastAttempt(i) == ~(i < max_retries - 1)

\* An exception leaves the try block of main(): the except clause logs it
\* and re-raises, and the finally clause is next.
MainRaise(exc) ==
    /\ raised' = exc
    /\ log' = <<"Database setup failed", exc>>
    /\ pc' = "m_finally"

\* connect_to_default_db(): psycopg2.connect to "postgres", then
\* set_isolation_level and cursor().  The connect may fail, or the
\* connection may be made and one of the two later calls fail.
MainConnectDefault ==
    /\ pc = "m_connect_default"
    /\ \E outcome \in {"ok", "connect_error", "configure_error"} :
          CASE outcome = "ok" ->
                 /\ sessions' = Append(sessions, Session("postgres", "open", "open"))
                 /\ conn' = Len(sessions) + 1
                 /\ cur' = Len(sessions) + 1
                 /\ pc' = "m_create_database"
                 /\ log' = <<"Successfully connected to default database", "">>
                 /\ UNCHANGED raised
            [] outcome = "connect_error" ->
                 /\ MainRaise("connect_to_default_db")
                 /\ UNCHANGED <<sessions, conn, cur>>
            [] outcome = "configure_error" ->
                 /\ sessions' = Append(sessions, Session("postgres", "open", "none"))
                 /\ conn' = Len(sessions) + 1
                 /\ MainRaise("connect_to_default_db")
                 /\ UNCHANGED cur
    /\ UNCHANGED <<attempt, attempts, sleeps, verify_calls>>
    /\ UNCHANGED <<caller, runs>>
    /\ UNCHANGED <<taxVars, valVars, dbVars, importVars, histVars>>

\* create_database(): DROP DATABASE IF EXISTS, CREATE DATABASE, then
\* self.cleanup() and the sleeps; or one of its statements raises an Error.
MainCreateDatabase ==
    /\ pc = "m_create_database"
    /\ \E ok \in BOOLEAN :
          IF ok
          THEN /\ employees' = {}
               /\ pay_structure' = {}
               /\ sessions' = cleanup(sessions, conn, cur)
               /\ pc' = "m_verify"
               /\ log' = <<"Database connections cleaned up", "">>
               /\ UNCHANGED raised
          ELSE /\ MainRaise("create_database")
               /\ UNCHANGED <<employees, pay_structure, sessions>>
    /\ UNCHANGED <<conn, cur, attempt, attempts, sleeps, verify_calls>>
    /\ UNCHANGED <<caller, runs>>
    /\ UNCHANGED <<taxVars, valVars, importVars, histVars>>

\* Faulty variant: a failed check is run a second time before it is fatal.
MainVerify_Retry ==
    /\ pc = "m_verify"
    /\ verify_calls' = verify_calls + 1
    /\ \E outcome \in {"exists", "absent", "connect_error", "query_error"} :
          /\ sessions' =
                IF outcome = "connect_error" THEN sessions
                ELSE Append(sessions, Session("postgres", "closed", "closed"))
          /\ IF outcome = "exists"
                THEN /\ pc' = "m_connect"
                     /\ log' = <<"Verified database exists", "">>
                     /\ UNCHANGED raised
                ELSE IF verify_calls = 0
                THEN /\ pc' = "m_verify"
                     /\ log' = <<"Error verifying database", "">>
                     /\ UNCHANGED raised
                ELSE MainRaise("database does not exist")
    /\ attempt' = 0
    /\ UNCHANGED <<conn, cur, attempts, sleeps>>
    /\ UNCHANGED <<caller, runs>>
    /\ UNCHANGED <<taxVars, valVars, dbVars, importVars, histVars>>

\* connect_to_psu_db(), first statement: verify_database_exists() on a
\* session of its own.  Its cursor is closed by the with block; psycopg2's
\* connection context manager does not close the connection, which is
\* closed when the function returns and CPython drops the last reference
\* to it.  The session is recorded as the function leaves it.
MainVerify ==
    /\ pc = "m_verify"
    /\ verify_calls' = verify_calls + 1
    /\ \E outcome \in {"exists", "absent", "connect_error", "query_error"} :
          /\ sessions' =
                IF outcome = "connect_error" THEN sessions
                ELSE Append(sessions, Session("postgres", "closed", "closed"))
          /\ IF outcome = "exists"
                THEN /\ pc' = "m_connect"
                     /\ log' = <<"Verified database exists", "">>
                     /\ UNCHANGED raised
                ELSE MainRaise("database does not exist")
    /\ attempt' = 0
    /\ UNCHANGED <<conn, cur, attempts, sleeps>>
    /\ UNCHANGED <<caller, runs>>
    /\ UNCHANGED <<taxVars, valVars, dbVars, importVars, histVars>>

\* self.conn is assigned a new connection.  A connection it held that has
\* no cursor loses its last reference, and CPython deallocates it, which
\* closes it; one with a cursor is kept by self.cur.
Rebind(ss, c) ==
    IF c # 0 /\ ss[c].cur = "none" /\ ss[c].conn = "open"
    THEN [ss EXCEPT ![c].conn = "closed"]
    ELSE ss

\* One iteration of  for attempt in range(self.max_retries): the try body
\* psycopg2.connect(database=self.db_name), autocommit, cursor().  The
\* connect may fail, or succeed and one of the two later statements fail;
\* both are caught by the except branch.
MainConnectAttempt ==
    /\ pc = "m_connect"
    /\ attempt < max_retries
    /\ attempts' = attempts + 1
    /\ \E outcome \in {"ok", "connect_error", "configure_error"} :
          /\ CASE outcome = "ok" ->
                    /\ sessions' = Append(Rebind(sessions, conn),
                                      Session("employeedb", "open", "open"))
                    /\ conn' = Len(sessions) + 1
                    /\ cur' = Len(sessions) + 1
               [] outcome = "connect_error" ->
                    UNCHANGED <<sessions, conn, cur>>
               [] outcome = "configure_error" ->
                    /\ sessions' = Append(Rebind(sessions, conn),
                                      Session("employeedb", "open", "none"))
                    /\ conn' = Len(sessions) + 1
                    /\ UNCHANGED cur
          /\ IF outcome = "ok"
                THEN /\ pc' = "m_create_tables"
                     /\ log' = <<"Successfully connected", "">>
                     /\ UNCHANGED raised
                ELSE IF IsLastAttempt(attempt)
                THEN MainRaise("connect_to_psu_db")
                ELSE /\ pc' = "m_backoff"
                     /\ log' = <<"Connection attempt failed, retrying", "">>
                     /\ UNCHANGED raised
    /\ UNCHANGED <<attempt, sleeps, verify_calls>>
    /\ UNCHANGED <<caller, runs>>
    /\ UNCHANGED <<taxVars, valVars, dbVars, importVars, histVars>>

\* time.sleep(wait_time), and the loop goes to its next iteration.
MainBackoff ==
    /\ pc = "m_backoff"
    /\ sleeps' = Append(sleeps, wait_time(attempt))
    /\ attempt' = attempt + 1
    /\ pc' = "m_connect"
    /\ UNCHANGED <<sessions, conn, cur, attempts, verify_calls>>
    /\ UNCHANGED <<caller, raised, log, runs>>
    /\ UNCHANGED <<taxVars, valVars, dbVars, importVars, histVars>>

\* The statements a step of main() runs on self.cur either all succeed,
\* or one raises an Error, which the step logs and re-raises.
StatementOutcome(next, name) ==
    \E ok \in BOOLEAN :
       IF ok
       THEN /\ pc' = next
            /\ log' = <<name, "created successfully">>
            /\ UNCHANGED raised
       ELSE MainRaise(name)

\* create_tables(): the two CREATE TABLE statements and the tax function.
MainCreateTables ==
    /\ pc = "m_create_tables"
    /\ StatementOutcome("m_exists", "create_tables")
    /\ UNCHANGED <<caller, runs>>
    /\ UNCHANGED <<taxVars, valVars, dbVars, connVars, importVars, histVars>>

\* os.path.exists of both CSV files holds: import_data is called.
MainImport ==
    /\ pc = "m_exists"
    /\ \E read_ok \in BOOLEAN : ImportBegin(read_ok)

\* A CSV file is not there: the import is skipped with a warning.
MainSkipImport ==
    /\ pc = "m_exists"
    /\ pc' = "m_finally"
    /\ log' = <<"CSV files not found, skipping data import", "">>
    /\ UNCHANGED <<caller, raised, runs>>
    /\ UNCHANGED <<taxVars, valVars, dbVars, connVars, importVars, histVars>>

MainCreateFunction ==
    /\ pc = "m_function"
    /\ StatementOutcome("m_view", "create_total_compensation_function")
    /\ UNCHANGED <<caller, runs>>
    /\ UNCHANGED <<taxVars, valVars, dbVars, connVars, importVars, histVars>>

MainCreateView ==
    /\ pc = "m_view"
    /\ StatementOutcome("m_finally", "create_employee_summary_view")
    /\ UNCHANGED <<caller, runs>>
    /\ UNCHANGED <<taxVars, valVars, dbVars, connVars, importVars, histVars>>

\* finally: db_manager.cleanup(); then main() returns, or the exception
\* reaches its caller.
MainFinally ==
    /\ pc = "m_finally"
    /\ sessions' = cleanup(sessions, conn, cur)
    /\ pc' = "m_done"
    /\ UNCHANGED <<conn, cur, attempt, attempts, sleeps, verify_calls>>
    /\ UNCHANGED <<caller, raised, log, runs>>
    /\ UNCHANGED <<taxVars, valVars, dbVars, importVars, histVars>>

\* main() is entered: DatabaseManager(**DB_PARAMS) has run __init__.
MainInit ==
    /\ TaxIdle
    /\ ValidatorIdle
    /\ ImportIdle
    /\ employees = {}
    /\ pay_structure = {}
    /\ sessions = <<>>
    /\ conn = 0
    /\ cur = 0
    /\ attempt = 0
    /\ attempts = 0
    /\ sleeps = <<>>
    /\ verify_calls = 0
    /\ successful_employee_ids = {}
    /\ pc = "m_connect_default"
    /\ caller = "main"

MainNext ==
    \/ MainConnectDefault
    \/ MainCreateDatabase
    \/ MainVerify
    \/ MainConnectAttempt
    \/ MainBackoff
    \/ MainCreateTables
    \/ MainImport
    \/ MainSkipImport
    \/ ImportEmployeeRow
    \/ ImportEmployeesDone
    \/ ImportPayRow
    \/ ImportPayDone
    \/ MainCreateFunction
    \/ MainCreateView
    \/ MainFinally

SpecMain == MainInit /\ [][MainNext]_vars

----------------------------------------------------------------------------
(* calculate_total_compensation on the tables an import leaves             *)

\* annual_benefits of one pay row: COALESCE(stocks, 0) +
\* COALESCE(vacation_tour, 0) + medical_benefits + bonus_amount
AnnualBenefits(p) ==
    p.stocks + p.vacation_tour + p.medical_benefits + p.bonus_amount

\* The rows calculate_total_compensation(p_employee_id) can return on a
\* table.  Each of its two  SELECT ... INTO ... WHERE employee_id =
\* p_employee_id  takes the first row its scan returns, and neither has an
\* ORDER BY; with no row the variable stays NULL and COALESCE gives 0.
calculate_total_compensation(table, p_employee_id) ==
    LET rows == {p \in table : p.employee_id = p_employee_id}
    IN  IF rows = {} THEN {NoCompensation}
        ELSE {Compensation(r1.monthly_salary,
                           r1.monthly_salary * 12 + AnnualBenefits(r2),
                           AnnualBenefits(r2)) : r1 \in rows, r2 \in rows}

\* The employees table after both base rows were imported.
BothEmployees ==
    {EmployeeValues(StripIfsc(FillEmployeeRow(EmployeeBase(Id_A, Email_A)))),
     EmployeeValues(StripIfsc(FillEmployeeRow(EmployeeBase(Id_B, Email_B))))}

BothIds == {e.employee_id : e \in BothEmployees}

\* pay_structure after the pay loop has run on one more row.  No row of
\* PayRows has a monthly tax that is a rounding tie, so the sign of the
\* float error makes no difference here.
AfterPayRow(raw, table) ==
    PayRowResult(raw, "none", 0, table, BothEmployees, BothIds, 0,
                 0).pay_structure

\* The tables the pay loop leaves on a two-row pay file.
PayTables == {AfterPayRow(b, AfterPayRow(a, {})) : a, b \in PayRows}

\* A manager that has imported both base employees and a two-row pay file
\* and has created the function.
CompensationInit ==
    /\ NoTaxCall
    /\ CompensationIdle
    /\ ValidatorIdle
    /\ ImportIdle
    /\ employees = BothEmployees
    /\ pay_structure \in PayTables
    /\ sessions = <<Session("employeedb", "open", "open")>>
    /\ conn = 1
    /\ cur = 1
    /\ attempt = 0
    /\ attempts = 1
    /\ sleeps = <<>>
    /\ verify_calls = 1
    /\ successful_employee_ids = BothIds
    /\ pc = "idle"
    /\ caller = "none"

\* SELECT * FROM calculate_total_compensation(%s), for an id with or
\* without an employee and with or without pay rows.
CompensationCall ==
    /\ comp_id = 0
    /\ \E id \in BothIds \cup {Num(PayEmp_None)} :
          /\ comp_id' = id
          /\ comp' \in calculate_total_compensation(pay_structure, id)
    /\ UNCHANGED <<income_x, income_y, tax_x, tax_y, tpc>>
    /\ UNCHANGED <<valVars, dbVars, connVars, importVars, ctlVars, histVars>>

CompensationNext == CompensationCall

SpecCompensation == CompensationInit /\ [][CompensationNext]_vars

----------------------------------------------------------------------------
(* Claims about import_data                                                *)

\* C1: a pay row is inserted during a run only if an employee row with the
\* same employee_id was inserted earlier in that same run.
C1_PayOnlyForEmployeeOfSameRun ==
    [][\A p \in pay_structure' \ pay_structure :
          p.employee_id \in run_employee_ids]_vars

\* C2: a row-level problem (here a missing pay_id or employee_id) never
\* aborts import_data: no exception leaves the row loops because of a row.
C2_RowProblemNeverAborts == raised # "ValueError"

\* C3: an employee row that passes validation and whose INSERT fails at the
\* database increases failed_inserts and not successful_inserts, leaves the
\* stored employees as they were and adds nothing to
\* successful_employee_ids.
C3_FailedInsertIsRejected ==
    [][(/\ emp_i' = emp_i + 1
        /\ log'[1] = "Error inserting employee record")
       => /\ failed_inserts' = failed_inserts + 1
          /\ successful_inserts' = successful_inserts
          /\ employees' = employees
          /\ successful_employee_ids' = successful_employee_ids]_vars

\* A duplicate employee_id was refused by the primary key on a re-import.
C3_Witness ==
    /\ runs = 2
    /\ log = <<"Error inserting employee record",
               "duplicate key employees_pkey">>
    /\ failed_inserts = 1
    /\ employees # {}

\* C4: when import_data completes, successful + failed equals the number
\* of rows of each source, each successful count equals the number of rows
\* the run inserted, and a row counted as failed wrote nothing.
C4_CountsAreExact ==
    [][/\ log'[1] = "Pay structure import completed"
          => /\ successful_inserts' + failed_inserts' = emp_i'
             /\ pay_successful' + pay_failed' = pay_i'
             /\ successful_inserts' = run_inserted_emp'
             /\ pay_successful' = run_inserted_pay'
       /\ failed_inserts' > failed_inserts => employees' = employees
       /\ pay_failed' > pay_failed => pay_structure' = pay_structure]_vars

\* A completed run that accepted and rejected rows of both kinds.
C4_Witness ==
    /\ log[1] = "Pay structure import completed"
    /\ successful_inserts = 1 /\ failed_inserts = 1
    /\ pay_successful = 1 /\ pay_failed = 1

\* C10: the stored monthly_salary of every pay row equals base_salary + ta
\* + da + hra + uniform_allowance - employee_pf - income_tax, taken on the
\* stored 2-decimal employee_pf and income_tax.
C10_SalaryFromStoredColumns ==
    \A p \in pay_structure :
       p.monthly_salary = p.base_salary + p.ta + p.da + p.hra
                          + p.uniform_allowance - p.employee_pf - p.income_tax

----------------------------------------------------------------------------
(* Claims about the validators                                             *)

\* The fields of a raw row that a rule of its validator reads.
RuledPayFields == {"base_salary", "da", "hra", "medical_benefits",
                   "bonus_amount"}

RuledNameFields == {"first_name", "last_name"}

\* C5: a row in which a field read by a rule is missing is returned
\* invalid by its validator.
C5_MissingFieldIsInvalid ==
    v_result # NotValidated =>
       /\ (v_kind = "pay" /\ \E f \in RuledPayFields : v_row[f] = NaN)
             => ~v_result.is_valid
       /\ (v_kind = "employee" /\ \E f \in RuledNameFields : v_row[f] = NaN)
             => ~v_result.is_valid

----------------------------------------------------------------------------
(* Claims about main() and the connection                                  *)

\* self.cur is the cursor of a session on employeedb: connect_to_psu_db
\* has returned.
PsuConnected == cur # 0 /\ sessions[cur].database = "employeedb"

\* C6: connect_to_psu_db makes at most 5 attempts; the wait after failed
\* attempt k is retry_delay * k, for k = 1..4 only; it returns at the first
\* successful attempt, and raises after the 5th failure without waiting.
C6_RetryWithLinearBackoff ==
    /\ attempts <= 5
    /\ \A k \in 1..Len(sleeps) : sleeps[k] = retry_delay * k
    /\ Len(sleeps) <= 4
    /\ pc = "m_connect" => Len(sleeps) = attempts
    /\ pc = "m_backoff" => Len(sleeps) = attempts - 1
    /\ PsuConnected => attempts >= 1 /\ Len(sleeps) = attempts - 1
    /\ raised = "connect_to_psu_db" => attempts = 5 /\ Len(sleeps) = 4

\* The fifth attempt failed after the waits 3, 6, 9, 12.
C6_Witness ==
    /\ raised = "connect_to_psu_db"
    /\ attempts = 5
    /\ sleeps = <<3, 6, 9, 12>>

\* C7: when main() ends with an exception, every session the manager
\* opened has its connection and its cursor closed.
C7_SessionsReleasedOnError ==
    (pc = "m_done" /\ raised # "") =>
       \A i \in 1..Len(sessions) :
          sessions[i].conn = "closed" /\ sessions[i].cur # "open"

\* import_data raised with the employeedb session open, and main() ended.
C7_Witness ==
    /\ pc = "m_done"
    /\ raised = "ValueError"
    /\ PsuConnected
    /\ Len(sessions) = 3

----------------------------------------------------------------------------
(* Claims about calculate_income_tax                                       *)

\* The part of income x that lies inside the band lo .. hi.
Portion(x, lo, hi) == Max2(0, Min2(x, hi) - lo)

\* Marginal-bracket tax in twentieths of a hundredth: every rate applied
\* to the portion of the income inside its band only, and summed.
MarginalBracketTax(x) ==
    Portion(x, Limit1, Limit2) * 1 + Portion(x, Limit2, Limit3) * 2
    + Portion(x, Limit3, Limit4) * 3 + Portion(x, Limit4, Limit5) * 4
    + Max2(0, x - Limit5) * 6

\* C8: calculate_income_tax(x) is the marginal-bracket tax of x divided by
\* 12 and rounded to 2 decimals; at every band limit the formulas of the
\* two adjacent bands agree; 913000.00 gives 3912.50.
C8_TaxIsMarginalBracket ==
    /\ tpc = "returned" =>
          tax_x = RoundHalfAway(MarginalBracketTax(income_x), 12 * 20)
    /\ Band1(Limit1) = Band2(Limit1)
    /\ Band2(Limit2) = Band3(Limit2)
    /\ Band3(Limit3) = Band4(Limit3)
    /\ Band4(Limit4) = Band5(Limit4)
    /\ Band5(Limit5) = Band6(Limit5)
    /\ calculate_income_tax(ScenarioIncome) = 391250

\* The scenario income has been taxed: 3912.50 a month, from band 4.
C8_Witness ==
    /\ tpc = "returned"
    /\ income_x = ScenarioIncome
    /\ income_x > Limit3 /\ income_x <= Limit4
    /\ tax_x = 391250

\* C9: the monthly tax is monotonic non-decreasing in the annual income,
\* across band limits and after rounding.
C9_TaxMonotonic ==
    (tpc = "returned" /\ income_x <= income_y) => tax_x <= tax_y

\* Two incomes on either side of the 600000 limit, taxed and rounded to the
\* same monthly figure.
C9_Witness ==
    /\ tpc = "returned"
    /\ income_x = Limit2
    /\ income_y = Limit2 + 1
    /\ tax_x = 125000
    /\ tax_y = 125000

----------------------------------------------------------------------------
(* Claims about the stored pay rows and their employees                    *)

\* C11: no employee_id is referenced by more than one stored pay_structure
\* row, whatever pay_id the pay rows carry.
C11_OnePayRowPerEmployee ==
    \A p, q \in pay_structure : p.employee_id = q.employee_id => p = q

\* C12: a pay row whose employee_id was carried by an employee row
\* rejected earlier in the same run is never inserted, also when another
\* employee row with that employee_id was accepted in the run.
C12_RejectedEmployeeBlocksPay ==
    [][\A p \in pay_structure' \ pay_structure :
          p.employee_id \notin run_rejected_ids]_vars

----------------------------------------------------------------------------
(* Claims about the order and the bounds of the field rules                *)

\* The order in which the employee rules are stated.
EmployeeRuleOrder ==
    <<"employee_id", "first_name", "last_name", "date_of_joining",
      "quarter_no", "email_id", "phone_number", "ifsc_code",
      "account_number">>

\* The rule of one field holds on a row (a row as the validator gets it).
EmployeeRuleHolds(field, row) ==
    CASE field = "employee_id" ->
            /\ IntParses(row.employee_id)
            /\ IntValue(row.employee_id) >= 1000000
            /\ IntValue(row.employee_id) <= 9999999
      [] field = "first_name" ->
            \E t \in PyMatch(row.first_name) : MatchAlpha(t)
      [] field = "last_name" ->
            \E t \in PyMatch(row.last_name) : MatchAlpha(t)
      [] field = "date_of_joining" -> ValidDate(row.date_of_joining)
      [] field = "quarter_no" ->
            \/ row.quarter_no = NA
            \/ \E t \in PyMatch(row.quarter_no) : MatchQuarter(t)
      [] field = "email_id" ->
            \E t \in PyMatch(row.email_id) : MatchEmail(t)
      [] field = "phone_number" ->
            \E t \in PyMatch(row.phone_number) : MatchPhone(t)
      [] field = "ifsc_code" -> validate_ifsc_code(row.ifsc_code)
      [] field = "account_number" ->
            \E t \in PyMatch(row.account_number) : MatchAccount(t)

\* The verdict that names the first field, in order, whose rule fails.
FirstFailing(order, holds) ==
    LET failing == {i \in 1..Len(order) : ~holds[i]}
    IN  IF failing = {} THEN Verdict(TRUE, "None")
        ELSE Verdict(FALSE,
                order[CHOOSE i \in failing : \A j \in failing : i <= j])

\* C13: validate_employee_data returns (False, reason) naming the first
\* field, in the fixed order, whose rule fails, and (True, None) iff no
\* rule fails.
C13_FirstFailingEmployeeField ==
    (v_kind = "employee" /\ v_result # NotValidated) =>
       LET row == StripIfsc(FillEmployeeRow(v_row))
       IN  v_result =
              FirstFailing(EmployeeRuleOrder,
                 [i \in 1..Len(EmployeeRuleOrder) |->
                     EmployeeRuleHolds(EmployeeRuleOrder[i], row)])

\* The order in which the pay rules are stated.
PayRuleOrder ==
    <<"base_salary", "da", "hra", "stocks", "vacation_tour",
      "medical_benefits", "bonus_amount">>

\* The rule of one field holds on a row (a row as the validator gets it):
\* the amount is there and within the bound of the field.
PayRuleHolds(field, row) ==
    /\ row[field] # NaN
    /\ CASE field = "base_salary" -> Num(row[field]) > 20000 * 100
         [] field = "bonus_amount" -> Num(row[field]) <= 25000 * 100
         [] OTHER -> Num(row[field]) >= 0

\* C14: validate_pay_data accepts a row iff base_salary > 20000, each of
\* da, hra, stocks, vacation_tour, medical_benefits is >= 0 and
\* bonus_amount <= 25000; on rejection it names the first failing field in
\* that order.
C14_PayRulesAndBounds ==
    (v_kind = "pay" /\ v_result # NotValidated) =>
       v_result =
          FirstFailing(PayRuleOrder,
             [i \in 1..Len(PayRuleOrder) |->
                 PayRuleHolds(PayRuleOrder[i], PreparePayRow(v_row))])

----------------------------------------------------------------------------
(* Claims about calculate_total_compensation                               *)

\* C15: calculate_total_compensation returns the employee's stored
\* monthly_salary as monthly compensation and the benefits of that same
\* pay row as total benefits, both 0 when the employee has no pay row, and
\* annual compensation = monthly compensation * 12 + total benefits.
C15_CompensationOfThePayRow ==
    comp_id # 0 =>
       /\ comp.annual_compensation =
             comp.monthly_compensation * 12 + comp.total_benefits
       /\ \A p \in pay_structure :
             p.employee_id = comp_id =>
                /\ comp.monthly_compensation = p.monthly_salary
                /\ comp.total_benefits = AnnualBenefits(p)
       /\ (\A p \in pay_structure : p.employee_id # comp_id) =>
             comp = NoCompensation

\* The order of the steps of one pay iteration.
PayStepOrder == <<"membership", "validate", "tax", "insert">>

\* C16: in every pay iteration the membership of the row's employee_id in
\* the accepted set is tested before any field is validated, and a row whose
\* employee_id is not in the set is rejected on that test alone: no field
\* validation, no tax request, no insert, one more rejected pay row.
C16_MembershipBeforeValidation ==
    [][pay_i' = pay_i + 1 =>
         /\ last_pay'.steps =
               SubSeq(PayStepOrder, 1, Len(last_pay'.steps))
         /\ (~last_pay'.accepted /\ raised' = "") =>
               /\ last_pay'.steps = <<"membership">>
               /\ pay_structure' = pay_structure
               /\ pay_successful' = pay_successful
               /\ pay_failed' = pay_failed + 1
               /\ log' = <<"Skipping pay record for non-existent employee_id",
                           "">>]_vars

\* A pay row was rejected on the membership test while other employees
\* were accepted.
C16_Witness ==
    /\ pc = "pay"
    /\ last_pay = [accepted |-> FALSE, steps |-> <<"membership">>]
    /\ successful_employee_ids # {}
    /\ pay_failed >= 1
    /\ log[1] = "Skipping pay record for non-existent employee_id"

\* The annual income of a stored pay row, on its stored amounts.
AnnualIncomeOf(p) ==
    12 * (p.base_salary + p.ta + p.da + p.hra + p.uniform_allowance)
    + p.stocks + p.vacation_tour + p.medical_benefits + p.bonus_amount

\* C17: an accepted pay row had its tax requested before the insert, and
\* the stored income_tax of every pay row is calculate_income_tax of
\* 12 * (base_salary + ta + da + hra + uniform_allowance) + stocks +
\* vacation_tour + medical_benefits + bonus_amount, a missing ta, stocks,
\* vacation_tour or uniform_allowance counting as 0; a failed tax request
\* inserts nothing and counts the row as rejected.
C17_StoredTaxOfAnnualIncome ==
    /\ \A p \in pay_structure :
          p.income_tax = calculate_income_tax(AnnualIncomeOf(p))
    /\ (pc = "pay" /\ last_pay.steps = PayStepOrder) =>
          \/ log[1] = "Error inserting pay record"
          \/ run_inserted_pay >= 1
    /\ (pc = "pay" /\ last_pay.steps = <<"membership", "validate", "tax">>
           /\ raised = "") =>
          /\ log[1] = "Error inserting pay record"
          /\ pay_failed >= 1

\* The columns of employees that the schema declares NOT NULL and the
\* claim names.
RequiredTextFields == {"first_name", "last_name", "designation",
                       "department", "branch_name", "bank_name", "shop"}

\* C18: an employee row is stored only if every required field was present
\* in the file: no stored row holds the placeholder of a missing cell in
\* first_name, last_name, designation, department, branch_name, bank_name
\* or shop.
C18_NoPlaceholderStored ==
    \A e \in employees : \A f \in RequiredTextFields : e[f] # NA

----------------------------------------------------------------------------
(* Claims about the schema check of connect_to_psu_db                      *)

\* C19: connect_to_psu_db runs the existence check once, on a session of
\* its own to the administrative database, before the first connection
\* attempt; a failed check is fatal at once, with no connection attempt
\* made and no second check.
C19_VerifyOnceBeforeConnecting ==
    [][/\ verify_calls' # verify_calls =>
            /\ verify_calls = 0 /\ verify_calls' = 1
            /\ attempts = 0 /\ attempts' = 0
            /\ conn' = conn /\ cur' = cur
            /\ \/ sessions' = sessions
               \/ /\ Len(sessions') = Len(sessions) + 1
                  /\ SubSeq(sessions', 1, Len(sessions)) = sessions
                  /\ sessions'[Len(sessions')].database = "postgres"
            /\ raised' \in {"", "database does not exist"}
            /\ raised' = "" <=> log' = <<"Verified database exists", "">>
       /\ attempts' # attempts =>
            /\ verify_calls = 1 /\ verify_calls' = 1
            /\ attempts = 0 => log = <<"Verified database exists", "">>
       /\ raised' = "database does not exist" =>
            /\ attempts' = 0 /\ sleeps' = <<>>
            /\ verify_calls' = 1]_vars

\* The check failed and main() ended without a connection attempt.
C19_Witness ==
    /\ raised = "database does not exist"
    /\ verify_calls = 1
    /\ attempts = 0
    /\ pc = "m_done"

----------------------------------------------------------------------------
(* Claims about what a run leaves behind                                   *)

\* C20: acceptance is per row and nothing is rolled back: whatever a later
\* row does (rejected, refused by the table, or the run aborting), every
\* row stored so far stays stored and every accepted identity stays in the
\* accepted set.
C20_NothingRolledBack ==
    [][/\ employees \subseteq employees'
       /\ pay_structure \subseteq pay_structure'
       /\ successful_employee_ids \subseteq successful_employee_ids']_vars

\* A run stored an employee row, rejected a later one, stored a pay row
\* and was then aborted by the next; the rows and the identity are there.
C20_Witness ==
    /\ raised = "ValueError"
    /\ run_inserted_emp >= 1 /\ run_inserted_pay >= 1
    /\ failed_inserts >= 1
    /\ employees # {} /\ pay_structure # {}
    /\ \A p \in pay_structure : p.employee_id \in successful_employee_ids

====
